---- MODULE Spec2Model ----
(***************************************************************************)
(* Iterative matrix inversion: shultz_inv (Shultz_method.py) and gen_inv   *)
(* (Ben_Israel_method.py).                                                 *)
(*                                                                         *)
(* Numbers.  The routines compute in binary floating point.  A float is    *)
(* modelled as a record [t, v]: t = "fin" and v an integer count of        *)
(* 1/Scale units (finite precision, every product and quotient is rounded  *)
(* to the nearest unit), or t = "inf" (v = 1 or -1, the sign), or          *)
(* t = "nan".  A quotient by zero gives inf or nan as numpy's float64      *)
(* division does (a warning, no exception).  The input matrix has integer  *)
(* entries; LA.det and LA.matrix_rank are taken with their mathematical    *)
(* value on it.                                                            *)
(*                                                                         *)
(* A matrix is a sequence of rows, each a sequence of entries.             *)
(***************************************************************************)
EXTENDS Integers, Sequences, FiniteSets, TLC

\* ---------------------------------------------------------------- bounds
Scale == 100        \* units per 1.0 of the modelled floats
MaxAbs == 1         \* ordinary input entries are -MaxAbs..MaxAbs
Big == 20           \* one large input entry (its square is beyond 1.8*Scale*2)
MaxIter == 3        \* max_iterations is drawn from 0..MaxIter

Shapes == {<<1, 1>>, <<1, 2>>, <<2, 1>>, <<2, 2>>}
Entries == (-MaxAbs..MaxAbs) \cup {Big}
\* tolerances, in units: 0.05, 0.6, 1.0, 2.0
Tolerances == {Scale \div 20, (3 * Scale) \div 5, Scale, 2 * Scale}

\* ------------------------------------------------------------ arithmetic
Abs(x) == IF x < 0 THEN -x ELSE x
Sign(x) == IF x < 0 THEN -1 ELSE IF x > 0 THEN 1 ELSE 0
Min(a, b) == IF a <= b THEN a ELSE b

\* n / d rounded to the nearest integer, halves away from zero (d > 0)
RoundDiv(n, d) ==
    IF n >= 0 THEN (2 * n + d) \div (2 * d) ELSE -((2 * (-n) + d) \div (2 * d))

\* Op applied to the values of its arguments, each evaluated once
Eval1(Op(_), a) == CHOOSE r \in {Op(x) : x \in {a}} : TRUE
Eval2(Op(_, _), a, b) == CHOOSE r \in {Op(x, y) : x \in {a}, y \in {b}} : TRUE
Eval3(Op(_, _, _), a, b, c) ==
    CHOOSE r \in {Op(x, y, z) : x \in {a}, y \in {b}, z \in {c}} : TRUE

Fin(n) == [t |-> "fin", v |-> n]
Inf(s) == [t |-> "inf", v |-> s]
NaN == [t |-> "nan", v |-> 0]
\* a variable not assigned yet
Unset == [t |-> "unset", v |-> 0]
FromInt(i) == Fin(i * Scale)
IsFin(a) == a.t = "fin"
IsNaN(a) == a.t = "nan"
FSign(a) == IF IsFin(a) THEN Sign(a.v) ELSE a.v

FNegRaw(a) == IF IsNaN(a) THEN NaN ELSE [t |-> a.t, v |-> -a.v]
FNeg(a) == Eval1(FNegRaw, a)
FAbsRaw(a) == IF IsNaN(a) THEN NaN ELSE [t |-> a.t, v |-> Abs(a.v)]
FAbs(a) == Eval1(FAbsRaw, a)

FAddRaw(a, b) ==
    IF IsNaN(a) \/ IsNaN(b) THEN NaN
    ELSE IF IsFin(a) /\ IsFin(b) THEN Fin(a.v + b.v)
    ELSE IF IsFin(a) THEN b
    ELSE IF IsFin(b) THEN a
    ELSE IF a.v = b.v THEN a ELSE NaN
FAdd(a, b) == Eval2(FAddRaw, a, b)

FSub(a, b) == FAdd(a, FNeg(b))

FMulRaw(a, b) ==
    IF IsNaN(a) \/ IsNaN(b) THEN NaN
    ELSE IF IsFin(a) /\ IsFin(b) THEN Fin(RoundDiv(a.v * b.v, Scale))
    ELSE IF FSign(a) * FSign(b) = 0 THEN NaN
    ELSE Inf(FSign(a) * FSign(b))
FMul(a, b) == Eval2(FMulRaw, a, b)

FDivRaw(a, b) ==
    IF IsNaN(a) \/ IsNaN(b) THEN NaN
    ELSE IF IsFin(a) /\ IsFin(b)
         THEN IF b.v = 0
              THEN IF a.v = 0 THEN NaN ELSE Inf(Sign(a.v))
              ELSE Fin(Sign(b.v) * RoundDiv(a.v * Scale, Abs(b.v)))
    ELSE IF IsFin(b) THEN Inf(a.v * (IF b.v < 0 THEN -1 ELSE 1))
    ELSE IF IsFin(a) THEN Fin(0)
    ELSE NaN
FDiv(a, b) == Eval2(FDivRaw, a, b)

\* comparisons: anything compared with nan is false
FLt(a, b) ==
    IF IsNaN(a) \/ IsNaN(b) THEN FALSE
    ELSE IF IsFin(a) /\ IsFin(b) THEN a.v < b.v
    ELSE IF IsFin(a) THEN b.v > 0
    ELSE IF IsFin(b) THEN a.v < 0
    ELSE a.v < b.v

FLe(a, b) ==
    IF IsNaN(a) \/ IsNaN(b) THEN FALSE
    ELSE IF IsFin(a) /\ IsFin(b) THEN a.v <= b.v
    ELSE IF IsFin(a) THEN b.v > 0
    ELSE IF IsFin(b) THEN a.v < 0
    ELSE a.v <= b.v

FGe(a, b) == FLe(b, a)

FMaxRaw(a, b) == IF IsNaN(a) \/ IsNaN(b) THEN NaN ELSE IF FLt(a, b) THEN b ELSE a
FMax(a, b) == Eval2(FMaxRaw, a, b)

\* ---------------------------------------------------------------- matrices
NRows(M) == Len(M)
NCols(M) == Len(M[1])
Shape(M) == <<NRows(M), NCols(M)>>

TransposeRaw(M) == [j \in 1..NCols(M) |-> [i \in 1..NRows(M) |-> M[i][j]]]
Transpose(M) == Eval1(TransposeRaw, M)
ToFloatRaw(A) == [i \in 1..NRows(A) |-> [j \in 1..NCols(A) |-> FromInt(A[i][j])]]
ToFloat(A) == Eval1(ToFloatRaw, A)
ScalarRaw(a, M) == [i \in 1..NRows(M) |-> [j \in 1..NCols(M) |-> FMul(a, M[i][j])]]
Scalar(a, M) == Eval2(ScalarRaw, a, M)
SubtractRaw(P, Q) == [i \in 1..NRows(P) |-> [j \in 1..NCols(P) |-> FSub(P[i][j], Q[i][j])]]
Subtract(P, Q) == Eval2(SubtractRaw, P, Q)

RECURSIVE DotSum(_, _, _, _, _)
DotSum(P, Q, i, j, l) ==
    IF l = 0 THEN Fin(0)
    ELSE FAdd(DotSum(P, Q, i, j, l - 1), FMul(P[i][l], Q[l][j]))

DotRaw(P, Q) == [i \in 1..NRows(P) |-> [j \in 1..NCols(Q) |-> DotSum(P, Q, i, j, NCols(P))]]
Dot(P, Q) == Eval2(DotRaw, P, Q)

\* 2 * np.eye(n)
TwoEye(n) == [i \in 1..n |-> [j \in 1..n |-> IF i = j THEN FromInt(2) ELSE Fin(0)]]

RECURSIVE RowAbsSum(_, _)
RowAbsSum(row, j) == IF j = 0 THEN Fin(0) ELSE FAdd(RowAbsSum(row, j - 1), FAbs(row[j]))

RECURSIVE MaxRowSum(_, _)
MaxRowSum(M, i) ==
    IF i = 1 THEN RowAbsSum(M[1], NCols(M))
    ELSE FMax(MaxRowSum(M, i - 1), RowAbsSum(M[i], NCols(M)))

\* LA.norm(M, np.inf): the largest absolute row sum
NormInfRaw(M) == MaxRowSum(M, NRows(M))
NormInf(M) == Eval1(NormInfRaw, M)

RECURSIVE SumOver(_, _, _)
SumOver(A, idx, sq) ==
    IF idx = 0 THEN 0
    ELSE LET i == ((idx - 1) \div NCols(A)) + 1
             j == ((idx - 1) % NCols(A)) + 1
         IN  SumOver(A, idx - 1, sq) + (IF sq THEN A[i][j] * A[i][j] ELSE Abs(A[i][j]))

\* the largest r in lo..hi with r * r <= n
SqrtFloorRaw(n, lo, hi) == CHOOSE r \in lo..hi : r * r <= n /\ (r = hi \/ (r + 1) * (r + 1) > n)
SqrtFloor(n, lo, hi) == Eval3(SqrtFloorRaw, n, lo, hi)

\* r, the floor of the square root of n, rounded up when n is nearer (r + 1)^2
RoundUp(n, r) == Fin(IF n - r * r > r THEN r + 1 ELSE r)

\* LA.norm(A, ord='fro'): the square root of the sum of squares, rounded
FrobeniusNorm(A) ==
    LET sumsq == SumOver(A, NRows(A) * NCols(A), TRUE)
        whole == SqrtFloor(sumsq, 0, SumOver(A, NRows(A) * NCols(A), FALSE))
        n == sumsq * Scale * Scale
        r == SqrtFloor(n, whole * Scale, (whole + 1) * Scale)
    IN  Eval2(RoundUp, n, r)

\* ------------------------------------------------- library: det and rank
\* M without row 1 and column j
Minor(M, j) ==
    [i \in 1..(NRows(M) - 1) |->
        [c \in 1..(NCols(M) - 1) |-> IF c < j THEN M[i + 1][c] ELSE M[i + 1][c + 1]]]

RECURSIVE DetExpand(_, _)
RECURSIVE DetRaw(_)
\* the expansion along the first row, columns 1..j
DetExpand(M, j) ==
    IF j = 0 THEN 0
    ELSE DetExpand(M, j - 1)
         + (IF j % 2 = 1 THEN 1 ELSE -1) * M[1][j] * Eval1(DetRaw, Minor(M, j))

DetRaw(M) == IF NRows(M) = 1 THEN M[1][1] ELSE DetExpand(M, NCols(M))
\* LA.det of a square integer matrix
Det(M) == Eval1(DetRaw, M)

IsSquare(M) == NRows(M) = NCols(M)

\* the elements of a set of integers, in increasing order
RECURSIVE Sorted(_)
Sorted(S) ==
    IF S = {} THEN <<>>
    ELSE LET lo == CHOOSE x \in S : \A y \in S : x <= y
         IN  <<lo>> \o Sorted(S \ {lo})

\* rows rs and columns cs of M, both increasing sequences of indices
Select(M, rs, cs) == [i \in 1..Len(rs) |-> [j \in 1..Len(cs) |-> M[rs[i]][cs[j]]]]
SubMatrix(M, R, C) == Eval3(Select, M, Sorted(R), Sorted(C))

HasMinor(M, r) ==
    \E R \in SUBSET (1..NRows(M)) : \E C \in SUBSET (1..NCols(M)) :
        /\ Cardinality(R) = r
        /\ Cardinality(C) = r
        /\ Det(SubMatrix(M, R, C)) # 0

\* the largest element of a set of positive integers, 0 for the empty set
Largest(S) == IF S = {} THEN 0 ELSE CHOOSE r \in S : \A q \in S : q <= r

RankRaw(M) == Eval1(Largest, {r \in 1..Min(NRows(M), NCols(M)) : HasMinor(M, r)})
\* LA.matrix_rank: the order of the largest nonzero minor
Rank(M) == Eval1(RankRaw, M)

\* ------------------------------------------------------- the two routines
\* the literal 1.8
OnePointEight == Fin(RoundDiv(18 * Scale, 10))

\* frobenius_norm, alpha and the initial approximation alpha * original^T
InitialApprox(A) ==
    LET frobenius_norm == FrobeniusNorm(A)
        alpha == FDiv(OnePointEight, FMul(frobenius_norm, frobenius_norm))
    IN  Scalar(alpha, ToFloat(Transpose(A)))

\* sigma = 1 before the loop
InitialSigma == FromInt(1)

\* the loop condition without the cap on the counter
LoopCond_NoCap(sig, tol, kk, maxit) == FGe(sig, tol)

\* while sigma >= tolerance and k < max_iterations
LoopCond(sig, tol, kk, maxit) == FGe(sig, tol) /\ kk < maxit

\* the validity check without the test of the determinant
ShultzValidate_NoDet(A) == IF ~IsSquare(A) THEN "nonsquare" ELSE "ok"

\* try: det = LA.det(original); if det == 0 ... except LinAlgError
ShultzValidate(A) ==
    IF ~IsSquare(A) THEN "nonsquare"
    ELSE IF Det(A) = 0 THEN "singular"
    ELSE "ok"

\* the loop body with the counter advanced once more inside the trace block
ShultzBody_CountInTrace(A, X, kk, show) ==
    LET new == Dot(X, Subtract(TwoEye(NRows(A)), Dot(ToFloat(A), X)))
        sig == FDiv(NormInf(Subtract(new, X)), NormInf(X))
    IN  [k |-> IF show THEN kk + 2 ELSE kk + 1, branch |-> "shultz", returned |-> FALSE,
         approx_copy |-> X, approx |-> new,
         denominator |-> NormInf(X), sigma |-> sig,
         lines |-> IF show THEN <<<<"iteration", kk + 2, sig, new>>>> ELSE <<>>]

\* one pass of the loop body of shultz_inv
ShultzBody(A, X, kk, show) ==
    LET n == NRows(A)
        unit == TwoEye(n)
        a == Dot(ToFloat(A), X)
        b == Subtract(unit, a)
        new == Dot(X, b)
        numerator == NormInf(Subtract(new, X))
        denominator == NormInf(X)
        sig == FDiv(numerator, denominator)
    IN  [k |-> kk + 1, branch |-> "shultz", returned |-> FALSE,
         approx_copy |-> X, approx |-> new,
         denominator |-> denominator, sigma |-> sig,
         lines |-> IF show THEN <<<<"iteration", kk + 1, sig, new>>>> ELSE <<>>]

\* if sigma < tolerance: return approx, else return None
ShultzConverged(sig, tol) == FLt(sig, tol)

\* dimension, m_or_n and row_or_column of gen_inv
MOrN(A) == Min(NRows(A), NCols(A))

\* dimension.index(m_or_n): 0 when the row count is the minimum, else 1
RowOrColumn(A) == IF NRows(A) = MOrN(A) THEN 0 ELSE 1

\* the arms chosen with the column arm taken by square matrices too
GenBranch_ColWhenSquare(A) ==
    IF NRows(A) >= NCols(A) /\ Rank(A) = MOrN(A) THEN "col"
    ELSE IF NRows(A) < NCols(A) /\ Rank(A) = MOrN(A) THEN "row"
    ELSE "none"

\* which arm of the if / elif / else of the loop body runs
GenBranch(A) ==
    IF RowOrColumn(A) = 1 /\ Rank(A) = MOrN(A) THEN "col"
    ELSE IF RowOrColumn(A) = 0 /\ Rank(A) = MOrN(A) THEN "row"
    ELSE "none"

\* one pass of the loop body of gen_inv, branch being the arm that runs
GenPass(A, X, kk, show, branch) ==
    LET unit == TwoEye(MOrN(A))
        new == IF branch = "col" THEN Dot(Subtract(unit, Dot(X, ToFloat(A))), X)
               ELSE IF branch = "row" THEN Dot(X, Subtract(unit, Dot(ToFloat(A), X)))
               ELSE X
        numerator == NormInf(Subtract(new, X))
        denominator == NormInf(X)
        sig == FDiv(numerator, denominator)
    IN  IF branch = "none"
        THEN [k |-> kk + 1, branch |-> branch, returned |-> TRUE,
              approx_copy |-> X, approx |-> X,
              denominator |-> Unset, sigma |-> Unset,
              lines |-> IF show THEN <<<<"not full rank">>>> ELSE <<>>]
        ELSE [k |-> kk + 1, branch |-> branch, returned |-> FALSE,
              approx_copy |-> X, approx |-> new,
              denominator |-> denominator, sigma |-> sig,
              lines |-> IF show THEN <<<<"iteration", kk + 1, sig, new>>>> ELSE <<>>]

\* one pass of the loop body of gen_inv
GenBody(A, X, kk, show) ==
    CHOOSE r \in {GenPass(A, X, kk, show, branch) : branch \in {GenBranch(A)}} : TRUE

\* if sigma <= tolerance: return approx, else return None
GenConverged(sig, tol) == FLe(sig, tol)

\* ------------------------------------------------------------------ state
\* The invocations, made one after another on the same arguments.
Calls == << [fn |-> "shultz_inv", show |-> FALSE],
            [fn |-> "shultz_inv", show |-> TRUE],
            [fn |-> "gen_inv", show |-> FALSE],
            [fn |-> "gen_inv", show |-> TRUE] >>
CallIds == 1..Len(Calls)

VARIABLES
    original,        \* the input matrix
    tolerance,       \* the tolerance argument
    max_iterations,  \* the max_iterations argument
    pc,              \* per call: "start", "loop" or "done"
    approx,          \* per call: the current approximation (<<>> before it is built)
    sigma,           \* per call: the stopping metric
    k,               \* per call: the iteration counter
    ret,             \* per call: the returned value
    out,             \* per call: what show_explanation wrote
    terminal,        \* per call: the terminal states reached so far
    hist             \* per call: the record of every pass of the loop body

vars == <<original, tolerance, max_iterations, pc, approx, sigma, k, ret, out,
          terminal, hist>>

Pending == [kind |-> "pending", val |-> <<>>]
None == [kind |-> "None", val |-> <<>>]
Array(X) == [kind |-> "ndarray", val |-> X]

Matrices ==
    UNION {[1..sh[1] -> [1..sh[2] -> Entries]] : sh \in Shapes}

Init ==
    /\ original \in Matrices
    /\ tolerance \in {Fin(t) : t \in Tolerances}
    /\ max_iterations \in 0..MaxIter
    /\ pc = [c \in CallIds |-> "start"]
    /\ approx = [c \in CallIds |-> <<>>]
    /\ sigma = [c \in CallIds |-> Unset]
    /\ k = [c \in CallIds |-> 0]
    /\ ret = [c \in CallIds |-> Pending]
    /\ out = [c \in CallIds |-> <<>>]
    /\ terminal = [c \in CallIds |-> {}]
    /\ hist = [c \in CallIds |-> <<>>]

\* call c is the one the single thread is executing
Running(c) == pc[c] # "done" /\ \A d \in 1..(c - 1) : pc[d] = "done"

Emit(show, o, line) == IF show THEN Append(o, line) ELSE o

\* return, with the terminal state it amounts to
Return(c, value, state, line) ==
    /\ ret' = [ret EXCEPT ![c] = value]
    /\ pc' = [pc EXCEPT ![c] = "done"]
    /\ terminal' = [terminal EXCEPT ![c] = @ \cup {state}]
    /\ out' = [out EXCEPT ![c] = Emit(Calls[c].show, @, line)]

\* shultz_inv up to the loop: the validity check, then alpha, approx, sigma, k
ShultzStart(c) ==
    /\ Running(c) /\ Calls[c].fn = "shultz_inv" /\ pc[c] = "start"
    /\ IF ShultzValidate(original) # "ok"
       THEN /\ Return(c, None, "Fail", <<ShultzValidate(original)>>)
            /\ UNCHANGED <<approx, sigma, k>>
       ELSE /\ approx' = [approx EXCEPT ![c] = InitialApprox(original)]
            /\ sigma' = [sigma EXCEPT ![c] = InitialSigma]
            /\ k' = [k EXCEPT ![c] = 0]
            /\ pc' = [pc EXCEPT ![c] = "loop"]
            /\ out' = [out EXCEPT ![c] =
                          Emit(Calls[c].show, @, <<"initial", InitialApprox(original)>>)]
            /\ UNCHANGED <<ret, terminal>>
    /\ UNCHANGED <<original, tolerance, max_iterations, hist>>

\* the loop condition holds: one pass of the body
ShultzIterate(c) ==
    /\ Running(c) /\ Calls[c].fn = "shultz_inv" /\ pc[c] = "loop"
    /\ k[c] < MaxIter
    /\ LoopCond(sigma[c], tolerance, k[c], max_iterations)
    /\ \E r \in {ShultzBody(original, approx[c], k[c], Calls[c].show)} :
           /\ k' = [k EXCEPT ![c] = r.k]
           /\ approx' = [approx EXCEPT ![c] = r.approx]
           /\ sigma' = [sigma EXCEPT ![c] = r.sigma]
           /\ out' = [out EXCEPT ![c] = @ \o r.lines]
           /\ hist' = [hist EXCEPT ![c] = Append(@, r)]
    /\ UNCHANGED <<original, tolerance, max_iterations, pc, ret, terminal>>

\* the loop condition fails: the final if / else
ShultzReturn(c) ==
    /\ Running(c) /\ Calls[c].fn = "shultz_inv" /\ pc[c] = "loop"
    /\ ~LoopCond(sigma[c], tolerance, k[c], max_iterations)
    /\ IF ShultzConverged(sigma[c], tolerance)
       THEN Return(c, Array(approx[c]), "Converged", <<"converged", k[c]>>)
       ELSE Return(c, None, "MaxIterationsExceeded", <<"not converged", max_iterations>>)
    /\ UNCHANGED <<original, tolerance, max_iterations, approx, sigma, k, hist>>

\* gen_inv up to the loop: alpha, approx, the shape flags, sigma, k
GenStart(c) ==
    /\ Running(c) /\ Calls[c].fn = "gen_inv" /\ pc[c] = "start"
    /\ approx' = [approx EXCEPT ![c] = InitialApprox(original)]
    /\ sigma' = [sigma EXCEPT ![c] = InitialSigma]
    /\ k' = [k EXCEPT ![c] = 0]
    /\ pc' = [pc EXCEPT ![c] = "loop"]
    /\ UNCHANGED <<original, tolerance, max_iterations, ret, out, terminal, hist>>

\* the loop condition holds: one pass of the body, which may return None
GenIterate(c) ==
    /\ Running(c) /\ Calls[c].fn = "gen_inv" /\ pc[c] = "loop"
    /\ k[c] < MaxIter
    /\ LoopCond(sigma[c], tolerance, k[c], max_iterations)
    /\ \E r \in {GenBody(original, approx[c], k[c], Calls[c].show)} :
           /\ k' = [k EXCEPT ![c] = r.k]
           /\ hist' = [hist EXCEPT ![c] = Append(@, r)]
           /\ IF r.returned
              THEN /\ Return(c, None, "Fail", <<"not full rank">>)
                   /\ UNCHANGED <<approx, sigma>>
              ELSE /\ approx' = [approx EXCEPT ![c] = r.approx]
                   /\ sigma' = [sigma EXCEPT ![c] = r.sigma]
                   /\ out' = [out EXCEPT ![c] = @ \o r.lines]
                   /\ UNCHANGED <<pc, ret, terminal>>
    /\ UNCHANGED <<original, tolerance, max_iterations>>

\* the loop condition fails: the final if / else
GenReturn(c) ==
    /\ Running(c) /\ Calls[c].fn = "gen_inv" /\ pc[c] = "loop"
    /\ ~LoopCond(sigma[c], tolerance, k[c], max_iterations)
    /\ IF GenConverged(sigma[c], tolerance)
       THEN Return(c, Array(approx[c]), "Converged", <<"converged", k[c]>>)
       ELSE Return(c, None, "MaxIterationsExceeded", <<"not converged", max_iterations>>)
    /\ UNCHANGED <<original, tolerance, max_iterations, approx, sigma, k, hist>>

Next ==
    \E c \in CallIds :
        \/ ShultzStart(c)
        \/ ShultzIterate(c)
        \/ ShultzReturn(c)
        \/ GenStart(c)
        \/ GenIterate(c)
        \/ GenReturn(c)

Spec == Init /\ [][Next]_vars

\* every call is scheduled until it returns
FairSpec == Spec /\ WF_vars(Next)

AllDone == \A c \in CallIds : pc[c] = "done"

\* ----------------------------------------------------------- properties
IsShultz(c) == Calls[c].fn = "shultz_inv"
IsGen(c) == Calls[c].fn = "gen_inv"
Done(c) == pc[c] = "done"

\* the mathematical classes of the input the statements speak of
Nonsingular(A) == NRows(A) = NCols(A) /\ Det(A) # 0
FullRank(A) == Rank(A) = Min(NRows(A), NCols(A))
ValidFor(c, A) == IF IsShultz(c) THEN Nonsingular(A) ELSE FullRank(A)

Identity(n) == [i \in 1..n |-> [j \in 1..n |-> IF i = j THEN Fin(Scale) ELSE Fin(0)]]
TwiceIdentity(n) == [i \in 1..n |-> [j \in 1..n |-> IF i = j THEN Fin(2 * Scale) ELSE Fin(0)]]

\* X_{k+1} = (2I - X_k A) X_k with the n x n identity
FullColumnRankUpdate(A, X) ==
    Dot(Subtract(TwiceIdentity(NCols(A)), Dot(X, ToFloat(A))), X)

\* X_{k+1} = X_k (2I - A X_k) with the m x m identity
FullRowRankUpdate(A, X) ==
    Dot(X, Subtract(TwiceIdentity(NRows(A)), Dot(ToFloat(A), X)))

\* the infinity norm of A X - I
Residual(A, X) == NormInf(Subtract(Dot(ToFloat(A), X), Identity(NRows(A))))

\* a pass of the loop body without what is written to the trace
Pass(r) == [k |-> r.k, returned |-> r.returned, approx_copy |-> r.approx_copy,
            approx |-> r.approx, denominator |-> r.denominator, sigma |-> r.sigma]
Passes(h) == [i \in 1..Len(h) |-> Pass(h[i])]
Branches(h) == [i \in 1..Len(h) |-> h[i].branch]

\* C1: every call terminates in exactly one of the terminal states Fail,
\* Converged, MaxIterationsExceeded: it never reaches two of them, a call
\* that has returned has reached one, and every call eventually returns.
C1_ExactlyOneTerminal ==
    /\ [](\A c \in CallIds :
            /\ Cardinality(terminal[c]) <= 1
            /\ (Done(c) <=> Cardinality(terminal[c]) = 1)
            /\ (Done(c) <=> ret[c] # Pending))
    /\ <>[]AllDone

C1_Witness ==
    /\ AllDone
    /\ terminal[1] = {"Converged"} /\ k[1] > 0
    /\ terminal[3] = {"Converged"}

\* C2 (as stated): on a valid input, max_iterations = 0 makes the call
\* return None without any pass of the loop, whatever the tolerance.
C2_ZeroIterationsFail ==
    \A c \in CallIds :
        (Done(c) /\ max_iterations = 0 /\ ValidFor(c, original))
            => (ret[c] = None /\ hist[c] = <<>>)

\* C3 (as stated): a call that leaves the loop with sigma >= tolerance
\* returns None; an approximation is returned only with sigma < tolerance.
C3_FailureUnlessBelowTolerance ==
    \A c \in CallIds :
        (Done(c) /\ terminal[c] # {"Fail"})
            => /\ (FGe(sigma[c], tolerance) /\ k[c] = max_iterations) => ret[c] = None
               /\ ret[c].kind = "ndarray" => FLt(sigma[c], tolerance)

\* C4 (as stated): on a rank-deficient input gen_inv returns None with the
\* counter still 0, no pass of the loop begun and no approximation returned.
C4_RankDeficientBeforeLoop ==
    \A c \in CallIds :
        (IsGen(c) /\ ~FullRank(original))
            => /\ k[c] = 0
               /\ hist[c] = <<>>
               /\ Done(c) => ret[c] = None

C6_TraceFlagNoEffect ==
    \A c, d \in CallIds :
        (Calls[c].fn = Calls[d].fn /\ Done(c) /\ Done(d))
            => /\ ret[c] = ret[d]
               /\ terminal[c] = terminal[d]
               /\ k[c] = k[d] /\ sigma[c] = sigma[d] /\ approx[c] = approx[d]
               /\ Passes(hist[c]) = Passes(hist[d])
               /\ Branches(hist[c]) = Branches(hist[d])

C6_Witness ==
    /\ Done(1) /\ Done(2)
    /\ k[2] > 1 /\ ret[2].kind = "ndarray"
    /\ out[1] = <<>> /\ Len(out[2]) > 2

\* C7 (as stated): the approximation shultz_inv returns for a square
\* nonsingular matrix after iterating satisfies ||A X - I||_inf < tolerance.
C7_ResidualBelowTolerance ==
    \A c \in CallIds :
        (IsShultz(c) /\ Done(c) /\ Nonsingular(original)
           /\ k[c] >= 1 /\ ret[c].kind = "ndarray")
            => FLt(Residual(original, ret[c].val), tolerance)

\* C8 (as stated): with a zero denominator the division is not evaluated:
\* sigma stays a finite number and no inf or nan reaches the loop condition.
C8_ZeroDenominatorGuarded ==
    \A c \in CallIds :
        /\ sigma[c].t \in {"unset", "fin"}
        /\ \A i \in 1..Len(hist[c]) :
              (~hist[c][i].returned /\ hist[c][i].denominator = Fin(0))
                  => IsFin(hist[c][i].sigma)

\* what a pass of gen_inv must have done for the update named by branch
Applied(r, branch, new) ==
    /\ ~r.returned
    /\ r.branch = branch
    /\ r.approx = new
    /\ Shape(r.approx) = <<NCols(original), NRows(original)>>

C10_GenEqualsShultz ==
    \A c, d \in CallIds :
        (IsShultz(c) /\ IsGen(d) /\ Done(c) /\ Done(d) /\ Nonsingular(original))
            => /\ Passes(hist[c]) = Passes(hist[d])
               /\ k[c] = k[d] /\ sigma[c] = sigma[d] /\ approx[c] = approx[d]
               /\ ret[c] = ret[d]

====
